---------------------------- MODULE Spec2Model ----------------------------
(***************************************************************************)
(* Model of the package-size-inline extension (src/src/extension.ts).     *)
(*                                                                         *)
(* Strings whose characters the code inspects (package names, version     *)
(* specs, package specs) are sequences of one-character strings.  Display *)
(* strings (the output of formatBytes, the sentinel) are TLA+ strings.    *)
(* A manifest text is a record: whether JSON.parse accepts it, the length *)
(* of each of its lines, and the "key": value pairs of the raw text in    *)
(* text order, each with the JSON object JSON.parse puts it in.           *)
(***************************************************************************)
EXTENDS Integers, Sequences, FiniteSets, Bags, TLC

VARIABLES
  phase,                \* "new" before activate(), "active", "deactivated"
  enabled,              \* the packageSizeInline.enabled setting
  activeEditor,         \* vscode.window.activeTextEditor ("none": undefined)
  text,                 \* text of every manifest document
  timeout,              \* the closure variable timeout of activate (0: undefined)
  timers,               \* pending setTimeout timers: records [id, editor]
  passes,               \* in-flight updateDecorations calls (a bag of records)
  sizeCache,            \* the module-level Map sizeCache
  decorationTypeCache,  \* keys of the module-level Map decorationTypeCache
  labels,               \* decorations painted in every editor, by display string
  errLog,               \* console.error was called by a .catch of triggerUpdate
  events,               \* number of host events delivered so far
  last,                 \* what the last step did (observation of the step)
  burst,                \* the current run of edits of the active manifest
  firstResult,          \* per key, the first result stored since the last clear
  out                   \* the result of the parser run of ParseSpec

vars == <<phase, enabled, activeEditor, text, timeout, timers, passes,
          sizeCache, decorationTypeCache, labels, errLog, events, last,
          burst, firstResult, out>>

-----------------------------------------------------------------------------
(* Bounds of the model *)

MaxEvents == 2          \* host events (edit, focus, open, setting change) in a run
MaxPasses == 2          \* updateDecorations calls in flight at once

-----------------------------------------------------------------------------
(* Program constants *)

KiB == 1024
DebounceMs == 400
\* The sentinel display string (an em dash in the source, U+2014).
Unknown == "--"
Wildcard == <<"*">>
FILE_PROTOCOL == <<"f", "i", "l", "e", ":">>
Digits == {"0", "1", "2", "3", "4", "5", "6", "7", "8", "9"}
\* A UTF-16 code unit that is an unpaired surrogate (one character of a name).
LoneSurrogate == "\\uD800"

-----------------------------------------------------------------------------
(* String helpers *)

\* String.prototype.indexOf(c, from): 1-based position, 0 when absent.
RECURSIVE IndexFrom(_, _, _)
IndexFrom(s, c, from) ==
  IF from > Len(s) THEN 0
  ELSE IF s[from] = c THEN from
  ELSE IndexFrom(s, c, from + 1)

StartsWith(s, p) == Len(s) >= Len(p) /\ SubSeq(s, 1, Len(p)) = p

\* Length of the longest run of digits of s that starts at position i.
RECURSIVE DigitRun(_, _)
DigitRun(s, i) ==
  IF i <= Len(s) /\ s[i] \in Digits THEN 1 + DigitRun(s, i + 1) ELSE 0

-----------------------------------------------------------------------------
(* formatBytes *)

\* Number.prototype.toFixed(1) of n / d for d a power of two: the quotient is
\* exact in binary floating point, and toFixed picks the nearest tenth, the
\* larger one on a tie.
ToFixed1(n, d) ==
  LET tenths == (2 * 10 * n + d) \div (2 * d)
  IN  ToString(tenths \div 10) \o "." \o ToString(tenths % 10)

\* formatBytes with the first threshold left out.
formatBytesNoMB(bytes) ==
  IF bytes >= KiB THEN ToFixed1(bytes, KiB) \o " kB"
  ELSE ToString(bytes) \o " B"

formatBytes(bytes) ==
  IF bytes >= KiB * KiB THEN ToFixed1(bytes, KiB * KiB) \o " MB"
  ELSE IF bytes >= KiB THEN ToFixed1(bytes, KiB) \o " kB"
  ELSE ToString(bytes) \o " B"

-----------------------------------------------------------------------------
(* parsePackageSpec, isExactVersion, isFileDependency *)

parsePackageSpec(spec) ==
  LET at == IndexFrom(spec, "@", 2)         \* spec.indexOf('@', 1)
      rest == SubSeq(spec, at + 1, Len(spec))
  IN  IF at = 0 THEN [name |-> spec, version |-> Wildcard]
      ELSE [name |-> SubSeq(spec, 1, at - 1),
            version |-> IF rest = <<>> THEN Wildcard ELSE rest]

\* /^\d+\.\d+\.\d+(-[^+]+)?(\+.*)?$/.test(version) || version === '*'
isExactVersion(version) ==
  LET d1 == DigitRun(version, 1)
      p2 == d1 + 2
      d2 == DigitRun(version, p2)
      p3 == p2 + d2 + 1
      d3 == DigitRun(version, p3)
      q  == p3 + d3                          \* first position after the core
      plus == IndexFrom(version, "+", q)
      \* (-[^+]+)? then (\+.*)? then $
      Suffix ==
        \/ q = Len(version) + 1
        \/ /\ q <= Len(version)
           /\ version[q] = "+"
        \/ /\ q <= Len(version)
           /\ version[q] = "-"
           /\ IF plus = 0 THEN Len(version) > q ELSE plus > q + 1
      Core ==
        /\ d1 >= 1
        /\ d1 + 1 <= Len(version) /\ version[d1 + 1] = "."
        /\ d2 >= 1
        /\ p2 + d2 <= Len(version) /\ version[p2 + d2] = "."
        /\ d3 >= 1
  IN  (Core /\ Suffix) \/ version = Wildcard

isFileDependency(version) == StartsWith(version, FILE_PROTOCOL)

-----------------------------------------------------------------------------
(* Manifest texts and parseDepsFromDocument *)

\* The value of a pair that is not a JSON string (a number, an object, ...):
\* the pattern of the scan, "key" : "value", does not match such a pair.
NonString == <<"<non-string>">>

\* JSON.parse(text).dependencies || {} : the keys JSON.parse puts in the object.
DeclaredNames(doc, sect) ==
  {doc.pairs[i].key : i \in {j \in 1..Len(doc.pairs) : doc.pairs[j].sect = sect}}

\* The property names every object parsed from JSON inherits, as far as they
\* can be the name of a package.
ObjectPrototypeNames == {<<"c", "o", "n", "s", "t", "r", "u", "c", "t", "o", "r">>}

\* name in dependencies: the in operator also finds the properties the object
\* inherits from Object.prototype.
HasProperty(doc, sect, name) ==
  name \in DeclaredNames(doc, sect) \/ name \in ObjectPrototypeNames

\* doc.lineAt(doc.positionAt(m.index).line).range.end : a position <<line, column>>.
LineEnd(doc, line) == <<line, doc.lineLen[line]>>

\* The anchor of an entry with the start of the match taken instead of the line's end.
MatchStart(doc, line) == <<line, 0>>

\* A DepEntry anchored where the match starts.
DepEntryAtMatch(doc, p) ==
  [name |-> p.key,
   version |-> IF p.val = <<>> THEN Wildcard ELSE p.val,
   range |-> MatchStart(doc, p.line)]

\* One DepEntry: version is value || '*'.
DepEntry(doc, p) ==
  [name |-> p.key,
   version |-> IF p.val = <<>> THEN Wildcard ELSE p.val,
   range |-> LineEnd(doc, p.line)]

\* The scan with the devDependencies object tested before dependencies.
RECURSIVE ScanFromDevFirst(_, _, _)
ScanFromDevFirst(doc, i, want) ==
  IF i > Len(doc.pairs) THEN <<>>
  ELSE LET p == doc.pairs[i]
           rest == ScanFromDevFirst(doc, i + 1, want)
           inDeps == HasProperty(doc, "dependencies", p.key)
           inDev == HasProperty(doc, "devDependencies", p.key)
           target == IF inDev THEN "devDeps" ELSE IF inDeps THEN "deps" ELSE "none"
       IN  IF p.val # NonString /\ target = want
           THEN <<DepEntry(doc, p)>> \o rest
           ELSE rest

\* The while loop over re.exec(text): the pairs with a string value, in text
\* order; want = "deps" collects the pushes to deps, "devDeps" those to devDeps.
RECURSIVE ScanFrom(_, _, _)
ScanFrom(doc, i, want) ==
  IF i > Len(doc.pairs) THEN <<>>
  ELSE LET p == doc.pairs[i]
           rest == ScanFrom(doc, i + 1, want)
           inDeps == HasProperty(doc, "dependencies", p.key)
           inDev == HasProperty(doc, "devDependencies", p.key)
           target == IF inDeps THEN "deps" ELSE IF inDev THEN "devDeps" ELSE "none"
       IN  IF p.val # NonString /\ target = want
           THEN <<DepEntry(doc, p)>> \o rest
           ELSE rest

\* The scan applied to the text whether JSON.parse accepts it or not.
parseDepsFromDocumentUnchecked(doc) ==
  [deps |-> ScanFrom(doc, 1, "deps"), devDeps |-> ScanFrom(doc, 1, "devDeps")]

\* JSON.parse throws on a text that is not JSON, before the scan starts; the
\* catch returns the two (still empty) arrays.
parseDepsFromDocument(doc) ==
  IF ~doc.valid THEN [deps |-> <<>>, devDeps |-> <<>>]
  ELSE [deps |-> ScanFrom(doc, 1, "deps"), devDeps |-> ScanFrom(doc, 1, "devDeps")]

-----------------------------------------------------------------------------
(* The documents and the environment of the pipeline *)

Manifests == {"m1", "m2"}       \* editors whose document is a package.json
Editors == Manifests \cup {"o"} \* "o": an editor on another document
NoEditor == "none"

\* isPackageJson(editor.document): the path ends with package.json.
isPackageJson(e) == e \in Manifests

\* path.dirname(editor.document.uri.fsPath)
DocDir(e) == IF e = "m1" THEN "/w1" ELSE "/w2"

NameA == <<"a">>
NameB == <<"@", "s", "/", "b">>
NameBad == <<"c", LoneSurrogate>>
NameCtor == <<"c", "o", "n", "s", "t", "r", "u", "c", "t", "o", "r">>
V100 == <<"1", ".", "0", ".", "0">>
VFile == <<"f", "i", "l", "e", ":", ".", "/", "b">>

Pair(k, v, sect, line) == [key |-> k, val |-> v, sect |-> sect, line |-> line]

MkText(valid, pairs) ==
  [valid |-> valid, lineLen |-> <<1, 20, 22, 4, 24, 1>>, pairs |-> pairs]

PairName == Pair(<<"n", "a", "m", "e">>, <<"x">>, "root", 1)

TxtNone == MkText(TRUE, <<PairName>>)
TxtA == MkText(TRUE, <<PairName, Pair(NameA, V100, "dependencies", 2)>>)
TxtInvalid == MkText(FALSE, <<PairName, Pair(NameA, V100, "dependencies", 2)>>)
TxtAB ==
  MkText(TRUE, <<Pair(NameA, V100, "dependencies", 2),
                 Pair(NameB, VFile, "devDependencies", 5)>>)
\* The two dependencies of TxtAB declared on one line of the text.
TxtOneLine ==
  MkText(TRUE, <<Pair(NameA, V100, "dependencies", 2),
                 Pair(NameB, VFile, "dependencies", 2)>>)
TxtDup ==
  MkText(TRUE, <<Pair(NameA, V100, "dependencies", 2),
                 Pair(NameA, V100, "devDependencies", 5)>>)
TxtBad ==
  MkText(TRUE, <<Pair(NameBad, V100, "dependencies", 2),
                 Pair(NameA, V100, "dependencies", 3)>>)

\* The texts an edit of the model can leave in the edited manifest.
PipelineTexts == {TxtNone, TxtA, TxtInvalid, TxtAB, TxtOneLine, TxtBad}

\* The texts the manifests start with; the edits of the model change the
\* dependencies of m1 only (an edit of m2 leaves its dependencies as they are).
InitialTexts == [m1 |-> TxtA, m2 |-> TxtDup]
EditedManifest == "m1"

\* The registry: per package name, the dist-tag latest and the published
\* versions with their dist.unpackedSize.
V200 == <<"2", ".", "0", ".", "0">>
V999 == <<"9", ".", "9", ".", "9">>
VRange == <<"^", "1", ".", "0", ".", "0">>
VOddKey == <<"2", ".", "x">>

\* Packages of the registry besides a: one with a version published under a
\* key that is no exact version, one without the dist-tag latest, one whose
\* latest names a version that is not in the versions map.
NameOdd == <<"o", "d", "d">>
NameUntagged == <<"u", "n", "t", "a", "g", "g", "e", "d">>
NameStale == <<"s", "t", "a", "l", "e">>

RegistryVersions(name) ==
  IF name = NameA THEN {[version |-> V100, unpackedSize |-> 1434895]}
  ELSE IF name = NameOdd
  THEN {[version |-> V100, unpackedSize |-> 500],
        [version |-> V200, unpackedSize |-> 2048],
        [version |-> VOddKey, unpackedSize |-> 1572864]}
  ELSE IF name \in {NameUntagged, NameStale}
  THEN {[version |-> V100, unpackedSize |-> 500]}
  ELSE {}

RegistryLatest(name) ==
  IF name = NameA THEN V100
  ELSE IF name = NameOdd THEN V200
  ELSE IF name = NameStale THEN V999
  ELSE <<>>

\* The file system below a manifest's directory: node_modules/<parts>.
File(n) == [kind |-> "file", size |-> n, entries |-> <<>>]
Dir(es) == [kind |-> "dir", size |-> 4096, entries |-> es]
Missing == [kind |-> "missing", size |-> 0, entries |-> <<>>]

Installed(dir, name) ==
  IF name = NameB /\ dir = "/w1" THEN Dir(<<File(1024), Dir(<<File(1000), File(24)>>)>>)
  ELSE IF name = NameB /\ dir = "/w2" THEN File(500)
  ELSE Missing

\* getDirSize: the sizes of all files below a directory.
RECURSIVE getDirSize(_)
getDirSize(node) ==
  LET RECURSIVE Sum(_)
      Sum(i) ==
        IF i > Len(node.entries) THEN 0
        ELSE (IF node.entries[i].kind = "dir"
              THEN getDirSize(node.entries[i])
              ELSE node.entries[i].size) + Sum(i + 1)
  IN  Sum(1)

-----------------------------------------------------------------------------
(* The result cache and the two resolvers *)

CacheHas(c, k) == \E r \in c : r.key = k
CacheGet(c, k) == (CHOOSE r \in c : r.key = k).value
\* Map.prototype.set: the value of an existing key is replaced.
CachePut(c, k, v) == {r \in c : r.key # k} \cup {[key |-> k, value |-> v]}

\* d.version && d.version !== '*' ? `${d.name}@${d.version}` : d.name
PackageSpec(d) ==
  IF d.version # <<>> /\ d.version # Wildcard
  THEN d.name \o <<"@">> \o d.version
  ELSE d.name

\* `node_modules:${path.join(docDir, 'node_modules', packageName)}`
NodeModulesKey(dir, name) == <<"node_modules:", dir, "/node_modules/">> \o name

LookupKey(e, d) ==
  IF isFileDependency(d.version) THEN NodeModulesKey(DocDir(e), d.name)
  ELSE PackageSpec(d)

\* encodeURIComponent throws a URIError on an unpaired surrogate.
EncodeThrows(name) == \E i \in 1..Len(name) : name[i] = LoneSurrogate

\* What the environment can answer to one registry request or one walk of
\* node_modules.
RegistryOutcomes == {"ok", "http_error", "network_error", "no_size"}
FsOutcomes == {"ok", "fs_error"}

\* fetchSize with the dist-tag latest followed whatever the version spec is.
fetchSizeResultLatestOnly(spec, outcome) ==
  LET ps == parsePackageSpec(spec)
      useExact == ps.version # <<>> /\ ps.version # Wildcard /\ isExactVersion(ps.version)
      versions == RegistryVersions(ps.name)
      Has(v) == \E rv \in versions : rv.version = v
      SizeOf(v) == (CHOOSE rv \in versions : rv.version = v).unpackedSize
      latest == RegistryLatest(ps.name)
  IN  IF outcome \in {"http_error", "network_error", "no_size"} THEN Unknown
      ELSE IF useExact
      THEN IF Has(ps.version) THEN formatBytes(SizeOf(ps.version)) ELSE Unknown
      ELSE IF Has(latest) THEN formatBytes(SizeOf(latest))
      ELSE Unknown

\* fetchSize after its request was issued: the display string it stores and
\* returns, given the environment's answer.
fetchSizeResult(spec, outcome) ==
  LET ps == parsePackageSpec(spec)
      useExact == ps.version # <<>> /\ ps.version # Wildcard /\ isExactVersion(ps.version)
      versions == RegistryVersions(ps.name)
      Has(v) == \E rv \in versions : rv.version = v
      SizeOf(v) == (CHOOSE rv \in versions : rv.version = v).unpackedSize
      latest == RegistryLatest(ps.name)
      versionToUse == IF ps.version = <<>> \/ ps.version = Wildcard THEN latest ELSE ps.version
  IN  IF outcome \in {"http_error", "network_error", "no_size"} THEN Unknown
      ELSE IF useExact
      THEN IF Has(ps.version) THEN formatBytes(SizeOf(ps.version)) ELSE Unknown
      ELSE IF versions = {} THEN Unknown
      ELSE IF versionToUse # <<>> /\ Has(versionToUse)
           THEN formatBytes(SizeOf(versionToUse))
      ELSE IF Has(latest) THEN formatBytes(SizeOf(latest))
      ELSE Unknown

\* getNodeModulesPackageSize after its stat was issued.
getNodeModulesPackageSizeResult(dir, name, outcome) ==
  LET node == Installed(dir, name)
  IN  IF outcome = "fs_error" THEN Unknown
      ELSE IF node.kind = "file" THEN formatBytes(node.size)
      ELSE IF node.kind = "dir" THEN formatBytes(getDirSize(node))
      ELSE Unknown

\* The request a resolver issues for an entry: fetch of the version document
\* `${NPM_REGISTRY}/${name}/${version}` for an exact version, fetch of the
\* package document `${NPM_REGISTRY}/${name}` otherwise, fs.stat of the
\* install path for a file dependency.
RequestOf(e, d) ==
  LET ps == parsePackageSpec(PackageSpec(d))
      useExact == ps.version # <<>> /\ ps.version # Wildcard /\ isExactVersion(ps.version)
  IN  IF isFileDependency(d.version)
      THEN [to |-> "fs", name |-> d.name, version |-> <<>>, dir |-> DocDir(e)]
      ELSE IF useExact
      THEN [to |-> "registry-version", name |-> ps.name, version |-> ps.version, dir |-> ""]
      ELSE [to |-> "registry-package", name |-> ps.name, version |-> <<>>, dir |-> ""]

NoRequest == [to |-> "none", name |-> <<>>, version |-> <<>>, dir |-> ""]

\* getDirSize with the file system failing at its failAt-th operation (0:
\* never).  n is the number of the readdir that opens the walk of node; the
\* result is the total so far, the number of the next operation and whether
\* an operation has thrown.  A throw ends the walk at once.
RECURSIVE getDirSizeAt(_, _, _)
getDirSizeAt(node, n, failAt) ==
  LET RECURSIVE Loop(_, _, _)
      Loop(i, total, k) ==
        IF i > Len(node.entries)
        THEN [total |-> total, next |-> k, thrown |-> FALSE]
        ELSE IF node.entries[i].kind = "dir"
        THEN LET sub == getDirSizeAt(node.entries[i], k, failAt)
             IN  IF sub.thrown THEN [sub EXCEPT !.total = total + sub.total]
                 ELSE Loop(i + 1, total + sub.total, sub.next)
        ELSE IF k = failAt
        THEN [total |-> total, next |-> k + 1, thrown |-> TRUE]
        ELSE Loop(i + 1, total + node.entries[i].size, k + 1)
  IN  IF n = failAt THEN [total |-> 0, next |-> n + 1, thrown |-> TRUE]
      ELSE Loop(1, 0, n + 1)

\* The walk with the total reached so far returned when an operation throws.
getNodeModulesPackageSizeWalkPartial(node, failAt) ==
  IF failAt = 1 \/ node.kind = "missing" THEN Unknown
  ELSE IF node.kind = "file" THEN formatBytes(node.size)
  ELSE IF node.kind = "dir" THEN formatBytes(getDirSizeAt(node, 2, failAt).total)
  ELSE Unknown

\* getNodeModulesPackageSize on the install path node, operation by
\* operation: fs.stat of the path is operation 1; every throw is caught by
\* the one catch, which yields the unknown string.
getNodeModulesPackageSizeWalk(node, failAt) ==
  IF failAt = 1 \/ node.kind = "missing" THEN Unknown
  ELSE IF node.kind = "file" THEN formatBytes(node.size)
  ELSE IF node.kind = "dir"
  THEN LET w == getDirSizeAt(node, 2, failAt)
       IN  IF w.thrown THEN Unknown ELSE formatBytes(w.total)
  ELSE Unknown

\* The number of file system operations of a walk that nothing interrupts.
Operations(node) ==
  IF node.kind = "dir" THEN getDirSizeAt(node, 2, 0).next - 1 ELSE 1

Pending == "pending"      \* a lookup that was issued and has not settled
Rejected == "rejected"    \* the promise of the entry is rejected

\* The resolvers without the cache read.
RECURSIVE StartAllNoCache(_, _, _, _)
StartAllNoCache(c, e, all, i) ==
  IF i > Len(all) THEN <<>>
  ELSE <<Pending>> \o StartAllNoCache(c, e, all, i + 1)

\* The synchronous part of the resolvers for the entries i.. of a pass, in
\* order: a cached key yields its value, any other key issues a lookup.
\* The cache is only read here: it is written when a lookup settles.
RECURSIVE StartAll(_, _, _, _)
StartAll(c, e, all, i) ==
  IF i > Len(all) THEN <<>>
  ELSE LET d == all[i]
           k == LookupKey(e, d)
           r == IF CacheHas(c, k) THEN CacheGet(c, k)
                ELSE IF ~isFileDependency(d.version)
                        /\ EncodeThrows(parsePackageSpec(PackageSpec(d)).name)
                THEN Rejected
                ELSE Pending
       IN  <<r>> \o StartAll(c, e, all, i + 1)

Range(f) == {f[i] : i \in DOMAIN f}

\* bySize: per display string, the ranges of the entries that got it, in order.
RECURSIVE RangesOf(_, _, _, _)
RangesOf(all, sizes, t, i) ==
  IF i > Len(all) THEN <<>>
  ELSE (IF sizes[i] = t THEN <<all[i].range>> ELSE <<>>) \o RangesOf(all, sizes, t, i + 1)

\* bySize with only the first range of every display string kept.
LabelGroupsFirstOnly(all, sizes) ==
  {[text |-> t, ranges |-> <<RangesOf(all, sizes, t, 1)[1]>>] : t \in Range(sizes)}

LabelGroups(all, sizes) ==
  {[text |-> t, ranges |-> RangesOf(all, sizes, t, 1)] : t \in Range(sizes)}

-----------------------------------------------------------------------------
(* The render coordinator.  The operators below take the mutable state of   *)
(* the extension as a record s and return it as the call leaves it; s.obs   *)
(* records what the call did: whether updateDecorations was called          *)
(* (started) and for which editor (ed), whether it parsed, the entries it   *)
(* found (all) and what each resolver answered at once (sizes), whether a   *)
(* pass ran to its end (completed) with which label groups (groups),        *)
(* and, per entry, the anchor and the string it was painted with (shown),   *)
(* whether Promise.all was rejected (aborted), the timers that clearTimeout *)
(* removed (cancelled), the request issued for every entry (requests), and, *)
(* for a lookup that settled, whether the environment answered it or made  *)
(* it fail (outcome).  One field is kept from call to call: per view, what  *)
(* the pass started last on it has painted (newest); a pass in flight       *)
(* carries the flag newest as long as no later pass was started on its view.*)

\* For a view, the pass that was started last on it: whether it has rendered,
\* and the label groups it painted.
NoPass == [done |-> FALSE, groups |-> {}]

NoObs ==
  [act |-> "init", doc |-> NoEditor, ed |-> NoEditor, started |-> FALSE,
   parsed |-> FALSE, all |-> <<>>, sizes |-> <<>>, completed |-> FALSE,
   groups |-> {}, shown |-> <<>>, aborted |-> FALSE, cancelled |-> {},
   requests |-> <<>>, outcome |-> "none",
   newest |-> [e \in Manifests |-> NoPass]]

Cur ==
  [timeout |-> timeout, timers |-> timers, passes |-> passes,
   sizeCache |-> sizeCache, types |-> decorationTypeCache, labels |-> labels,
   errLog |-> errLog,
   obs |-> [NoObs EXCEPT !.newest = last.newest]]

MinFree(used) == CHOOSE n \in 1..(Cardinality(used) + 1) :
                   n \notin used /\ \A m \in 1..(n - 1) : m \in used

\* The two loops that end updateDecorations: one setDecorations per group,
\* then setDecorations(type, []) for every other type of decorationTypeCache.
Render(s, e, all, sizes) ==
  LET groups == LabelGroups(all, sizes)
      used == Range(sizes)
      typesAfter == s.types \cup used
  IN  [s EXCEPT !.types = typesAfter,
                !.labels[e] = {g \in @ : g.text \notin typesAfter} \cup groups,
                !.obs.completed = TRUE, !.obs.groups = groups,
                !.obs.shown = [i \in 1..Len(all) |->
                                 [range |-> all[i].range, text |-> sizes[i]]]]

\* A pass has rendered on the view e: when it is the pass started last on e,
\* its label groups are recorded.
Rendered(s, e, newest) ==
  IF newest
  THEN [s EXCEPT !.obs.newest[e] = [done |-> TRUE, groups |-> s.obs.groups]]
  ELSE s

\* updateDecorations up to the point where the last lookup has settled.  A
\* pass whose sizes are all cached renders in the same task (the awaits
\* resume in microtasks); a rejected entry rejects Promise.all at once, the
\* .catch of triggerUpdate logs it, and the lookups already issued go on.
updateDecorations(s, e) ==
  LET parsed == parseDepsFromDocument(text[e])
      all == parsed.deps \o parsed.devDeps
      sizes == StartAll(s.sizeCache, e, all, 1)
      Older(p) == IF p.editor = e THEN [p EXCEPT !.newest = FALSE] ELSE p
      s0 == [s EXCEPT !.obs.started = TRUE, !.obs.ed = e]
      s1 == [s0 EXCEPT !.obs.parsed = TRUE, !.obs.all = all, !.obs.sizes = sizes,
                       !.obs.requests =
                         [i \in 1..Len(all) |->
                            IF sizes[i] = Pending THEN RequestOf(e, all[i])
                            ELSE NoRequest],
                       !.obs.newest[e] = NoPass,
                       !.passes = BagOfAll(Older, @)]
      pass == SetToBag({[editor |-> e, all |-> all, sizes |-> sizes,
                         newest |-> TRUE]})
  IN  IF ~enabled THEN s0
      ELSE IF ~isPackageJson(e) THEN s0
      ELSE IF all = <<>> THEN [s1 EXCEPT !.obs.completed = TRUE]
      ELSE IF Rejected \in Range(sizes)
      THEN [s1 EXCEPT !.errLog = TRUE, !.obs.aborted = TRUE,
                      !.passes = IF Pending \in Range(sizes) THEN @ (+) pass ELSE @]
      ELSE IF Pending \in Range(sizes) THEN [s1 EXCEPT !.passes = @ (+) pass]
      ELSE Rendered(Render(s1, e, all, sizes), e, TRUE)

clearAllDecorations(s, e) ==
  [s EXCEPT !.labels[e] = {g \in @ : g.text \notin s.types}]

\* The first lines of triggerUpdate: clearTimeout(timeout); timeout = undefined.
ClearPending(s) ==
  [s EXCEPT !.timers = {t \in @ : t.id # s.timeout}, !.timeout = 0,
            !.obs.cancelled = {t \in s.timers : t.id = s.timeout}]

\* A setTimeout whose callback is never queued.
ScheduleDropped(s, e) == s

\* setTimeout(() => updateDecorations(editor, context), 400)
Schedule(s, e) ==
  LET id == MinFree({t.id : t \in s.timers})
  IN  [s EXCEPT !.timers = @ \cup {[id |-> id, editor |-> e, delay |-> DebounceMs]},
                !.timeout = id]

\* triggerUpdate without the clearTimeout of its first lines.
triggerUpdateNoClear(s, e, throttle) ==
  IF e = NoEditor THEN s
  ELSE IF ~isPackageJson(e) THEN clearAllDecorations(s, e)
  ELSE IF throttle THEN Schedule(s, e)
  ELSE updateDecorations(s, e)

\* triggerUpdate without the test of the document's name.
triggerUpdateAnyDocument(s, e, throttle) ==
  LET s1 == ClearPending(s)
  IN  IF e = NoEditor THEN s1
      ELSE IF throttle THEN Schedule(s1, e)
      ELSE updateDecorations(s1, e)

\* triggerUpdate that runs the pass at once whatever throttle says.
triggerUpdateNoThrottle(s, e, throttle) ==
  LET s1 == ClearPending(s)
  IN  IF e = NoEditor THEN s1
      ELSE IF ~isPackageJson(e) THEN clearAllDecorations(s1, e)
      ELSE updateDecorations(s1, e)

triggerUpdate(s, e, throttle) ==
  LET s1 == ClearPending(s)
  IN  IF e = NoEditor THEN s1
      ELSE IF ~isPackageJson(e) THEN clearAllDecorations(s1, e)
      ELSE IF throttle THEN Schedule(s1, e)
      ELSE updateDecorations(s1, e)

\* The handler calling updateDecorations itself, without triggerUpdate.
onDidChangeActiveTextEditorDirect(s, e) ==
  IF e # NoEditor /\ isPackageJson(e) THEN updateDecorations(s, e)
  ELSE IF e # NoEditor THEN clearAllDecorations(s, e)
  ELSE s

\* The handler of onDidChangeActiveTextEditor.
onDidChangeActiveTextEditor(s, e) ==
  IF e # NoEditor /\ isPackageJson(e) THEN triggerUpdate(s, e, FALSE)
  ELSE IF e # NoEditor THEN clearAllDecorations(s, e)
  ELSE s

\* The handler of onDidChangeTextDocument, for a change of document doc while
\* editor is the active editor.
onDidChangeTextDocument(s, editor, doc) ==
  IF editor # NoEditor /\ doc = editor THEN triggerUpdate(s, editor, TRUE) ELSE s

\* The handler of onDidOpenTextDocument.
onDidOpenTextDocument(s, editor, doc) ==
  IF isPackageJson(doc) /\ editor = doc THEN triggerUpdate(s, editor, FALSE) ELSE s

\* A resolver that returns its result without sizeCache.set.
SettleLookupNoStore(s, p, i, r) ==
  LET sizes == [p.sizes EXCEPT ![i] = r]
      s1 == [s EXCEPT !.passes = @ (-) SetToBag({p}),
                      !.obs.ed = p.editor, !.obs.all = <<p.all[i]>>,
                      !.obs.sizes = <<r>>]
  IN  IF Pending \in Range(sizes)
      THEN [s1 EXCEPT !.passes = @ (+) SetToBag({[p EXCEPT !.sizes = sizes]})]
      ELSE IF Rejected \in Range(sizes) THEN s1
      ELSE Render(s1, p.editor, p.all, sizes)

\* SettleLookup with the render not waiting for the other lookups of the pass.
SettleLookupEager(s, p, i, r) ==
  LET k == LookupKey(p.editor, p.all[i])
      sizes == [p.sizes EXCEPT ![i] = r]
      s1 == [s EXCEPT !.sizeCache = CachePut(@, k, r),
                      !.passes = @ (-) SetToBag({p}),
                      !.obs.ed = p.editor, !.obs.all = <<p.all[i]>>,
                      !.obs.sizes = <<r>>]
  IN  IF Pending \in Range(sizes)
      THEN Render([s1 EXCEPT !.passes = @ (+) SetToBag({[p EXCEPT !.sizes = sizes]})],
                  p.editor, p.all, sizes)
      ELSE IF Rejected \in Range(sizes) THEN s1
      ELSE Render(s1, p.editor, p.all, sizes)

\* A lookup of a pass settles: the resolver stores its result in the cache and
\* returns it; when it was the last one, Promise.all resolves and the pass
\* renders (unless Promise.all was rejected before).
SettleLookup(s, p, i, r) ==
  LET k == LookupKey(p.editor, p.all[i])
      sizes == [p.sizes EXCEPT ![i] = r]
      s1 == [s EXCEPT !.sizeCache = CachePut(@, k, r),
                      !.passes = @ (-) SetToBag({p}),
                      !.obs.ed = p.editor, !.obs.all = <<p.all[i]>>,
                      !.obs.sizes = <<r>>]
  IN  IF Pending \in Range(sizes)
      THEN [s1 EXCEPT !.passes = @ (+) SetToBag({[p EXCEPT !.sizes = sizes]})]
      ELSE IF Rejected \in Range(sizes) THEN s1
      ELSE Rendered(Render(s1, p.editor, p.all, sizes), p.editor, p.newest)

ResultOf(p, i, outcome) ==
  IF isFileDependency(p.all[i].version)
  THEN getNodeModulesPackageSizeResult(DocDir(p.editor), p.all[i].name, outcome)
  ELSE fetchSizeResult(PackageSpec(p.all[i]), outcome)

OutcomesOf(p, i) ==
  IF isFileDependency(p.all[i].version) THEN FsOutcomes ELSE RegistryOutcomes

-----------------------------------------------------------------------------
(* The state machine *)

\* The run of edits of the active manifest that a step of kind act on
\* document doc leaves: n edits, each made while the timer of the one before
\* was pending; calls counts the updateDecorations calls of these edits and
\* of the timer that ends the run (closed).
NoBurst == [n |-> 0, calls |-> 0, closed |-> FALSE]

BurstAfter(r, act, doc) ==
  LET c == IF r.obs.started THEN 1 ELSE 0
  IN  IF act = "Edit" /\ isPackageJson(doc)
      THEN IF burst.n > 0 /\ ~burst.closed /\ timers # {}
           THEN [burst EXCEPT !.n = @ + 1, !.calls = @ + c]
           ELSE [n |-> 1, calls |-> c, closed |-> FALSE]
      ELSE IF act = "TimerFire"
      THEN IF burst.n > 0 /\ ~burst.closed
           THEN [burst EXCEPT !.calls = @ + c, !.closed = TRUE] ELSE burst
      ELSE IF act \in {"Settle", "SetEnabled"} THEN burst
      ELSE NoBurst

FirstResultAfter(r, act) ==
  IF act = "Deactivate" THEN {}
  ELSE IF act = "Settle"
  THEN LET k == LookupKey(r.obs.ed, r.obs.all[1])
       IN  IF CacheHas(firstResult, k) THEN firstResult
           ELSE firstResult \cup {[key |-> k, value |-> r.obs.sizes[1]]}
  ELSE firstResult

Apply(r, act, doc) ==
  /\ timeout' = r.timeout
  /\ timers' = r.timers
  /\ passes' = r.passes
  /\ sizeCache' = r.sizeCache
  /\ decorationTypeCache' = r.types
  /\ labels' = r.labels
  /\ errLog' = r.errLog
  /\ last' = [r.obs EXCEPT !.act = act, !.doc = doc]
  /\ burst' = BurstAfter(r, act, doc)
  /\ firstResult' = FirstResultAfter(r, act)

NoOut == [done |-> FALSE, deps |-> <<>>, devDeps |-> <<>>]

FreeSlot == BagCardinality(passes) < MaxPasses
HostEvent == phase = "active" /\ events < MaxEvents

Init ==
  /\ phase = "new"
  /\ enabled = TRUE
  /\ activeEditor \in Editors \cup {NoEditor}
  /\ text = InitialTexts
  /\ timeout = 0
  /\ timers = {}
  /\ passes = EmptyBag
  /\ sizeCache = {}
  /\ decorationTypeCache = {}
  /\ labels = [e \in Editors |-> {}]
  /\ errLog = FALSE
  /\ events = 0
  /\ last = NoObs
  /\ burst = NoBurst
  /\ firstResult = {}
  /\ out = NoOut

\* activate(): the active editor, when it shows a manifest, is updated at once.
Activate ==
  /\ phase = "new"
  /\ phase' = "active"
  /\ Apply(IF activeEditor # NoEditor /\ isPackageJson(activeEditor)
           THEN triggerUpdate(Cur, activeEditor, FALSE) ELSE Cur,
           "Activate", activeEditor)
  /\ UNCHANGED <<enabled, activeEditor, text, events, out>>

\* The user edits the document of the active editor.
Edit ==
  /\ HostEvent
  /\ activeEditor # NoEditor
  /\ IF activeEditor = EditedManifest
     THEN \E txt \in PipelineTexts : text' = [text EXCEPT ![activeEditor] = txt]
     ELSE text' = text
  /\ Apply(onDidChangeTextDocument(Cur, activeEditor, activeEditor),
           "Edit", activeEditor)
  /\ events' = events + 1
  /\ UNCHANGED <<phase, enabled, activeEditor, out>>

\* Another editor (or none) becomes the active one.
Focus ==
  /\ HostEvent
  /\ FreeSlot
  /\ \E e \in (Editors \cup {NoEditor}) \ {activeEditor} :
       /\ activeEditor' = e
       /\ Apply(onDidChangeActiveTextEditor(Cur, e), "Focus", e)
  /\ events' = events + 1
  /\ UNCHANGED <<phase, enabled, text, out>>

\* A document is opened.
Open ==
  /\ HostEvent
  /\ FreeSlot
  /\ \E doc \in Editors :
       Apply(onDidOpenTextDocument(Cur, activeEditor, doc), "Open", doc)
  /\ events' = events + 1
  /\ UNCHANGED <<phase, enabled, activeEditor, text, out>>

\* The user changes packageSizeInline.enabled.
SetEnabled ==
  /\ HostEvent
  /\ enabled' = ~enabled
  /\ Apply(Cur, "SetEnabled", NoEditor)
  /\ events' = events + 1
  /\ UNCHANGED <<phase, activeEditor, text, out>>

\* A debounce timer fires: its callback calls updateDecorations.
TimerFire ==
  /\ FreeSlot
  /\ \E t \in timers :
       Apply(updateDecorations([Cur EXCEPT !.timers = @ \ {t}], t.editor),
             "TimerFire", t.editor)
  /\ UNCHANGED <<phase, enabled, activeEditor, text, events, out>>

\* The environment answers a lookup.
Settle ==
  /\ \E p \in BagToSet(passes) : \E i \in 1..Len(p.all) :
       /\ p.sizes[i] = Pending
       /\ \E a \in {[result |-> ResultOf(p, i, outcome),
                      outcome |-> IF outcome = "ok" THEN "ok" ELSE "failure"] :
                       outcome \in OutcomesOf(p, i)} :
            Apply([SettleLookup(Cur, p, i, a.result) EXCEPT !.obs.outcome = a.outcome],
                  "Settle", p.editor)
  /\ UNCHANGED <<phase, enabled, activeEditor, text, events, out>>

\* deactivate(): the decoration types are disposed and both maps cleared.  The
\* host has disposed the subscriptions (no handler runs any more); the timer
\* and the passes in flight go on.
Deactivate ==
  /\ HostEvent
  /\ phase' = "deactivated"
  /\ Apply([Cur EXCEPT !.types = {}, !.sizeCache = {},
                       !.labels = [e \in Editors |-> {}]],
           "Deactivate", NoEditor)
  /\ events' = events + 1
  /\ UNCHANGED <<enabled, activeEditor, text, out>>

Next ==
  \/ Activate
  \/ Edit
  \/ Focus
  \/ Open
  \/ SetEnabled
  \/ TimerFire
  \/ Settle
  \/ Deactivate

Spec == Init /\ [][Next]_vars

\* TimerFire can be taken: a timer is set and not cleared.  This is
\* ENABLED <<TimerFire>>_vars, since a TimerFire step removes its timer.
TimerFireEnabled == FreeSlot /\ timers # {}

\* Settle can be taken: a lookup is outstanding.  This is
\* ENABLED <<Settle>>_vars, since a Settle step changes the pass it settles.
SettleEnabled == \E p \in BagToSet(passes) : Pending \in Range(p.sizes)

\* The steps of an extension that stays active with the flag left as it is.
FairNext ==
  \/ Activate
  \/ Edit
  \/ Focus
  \/ Open
  \/ TimerFire
  \/ Settle

\* A step is a TimerFire step, or a Settle step, exactly when it records that
\* kind of step in last.act.
TimerFired == last'.act = "TimerFire"
Settled == last'.act = "Settle"

StepsAreRecorded == [][(TimerFired <=> TimerFire) /\ (Settled <=> Settle)]_vars

\* The active, enabled extension with its environment making progress: a
\* timer that was set and not cleared fires, and a request that was issued is
\* answered or fails.  The two conjuncts are weak fairness of TimerFire and
\* of Settle, with ENABLED written out as the state predicates above and the
\* step recognised by what it records.
FairSpec ==
  /\ Init /\ [][FairNext]_vars
  /\ ([]<>~TimerFireEnabled \/ []<><<TimerFired>>_vars)
  /\ ([]<>~SettleEnabled \/ []<><<Settled>>_vars)

-----------------------------------------------------------------------------
(* The parser on its own: parseDepsFromDocument applied to every text of    *)
(* up to MaxPairs pairs.                                                    *)

MaxPairs == 3

PairKinds ==
  [key : {NameA, NameCtor}, val : {V100, <<>>, NonString},
   sect : {"dependencies", "devDependencies", "scripts"}]

\* A text of n pairs, every pair on a line of its own (oneLine = FALSE) or
\* all of them on line 1.
ParseText(valid, oneLine, f) ==
  MkText(valid, [i \in DOMAIN f |->
                  Pair(f[i].key, f[i].val, f[i].sect, IF oneLine THEN 1 ELSE i + 1)])

ParseInit ==
  /\ phase = "parser"
  /\ enabled = TRUE
  /\ activeEditor = "m1"
  /\ \E n \in 0..MaxPairs : \E f \in [1..n -> PairKinds] :
       \E valid \in BOOLEAN, oneLine \in BOOLEAN :
         text = [m1 |-> ParseText(valid, oneLine, f), m2 |-> TxtNone]
  /\ timeout = 0
  /\ timers = {}
  /\ passes = EmptyBag
  /\ sizeCache = {}
  /\ decorationTypeCache = {}
  /\ labels = [e \in Editors |-> {}]
  /\ errLog = FALSE
  /\ events = 0
  /\ last = NoObs
  /\ burst = NoBurst
  /\ firstResult = {}
  /\ out = NoOut

ParseStep ==
  /\ phase = "parser"
  /\ ~out.done
  /\ out' = [done |-> TRUE,
             deps |-> parseDepsFromDocument(text["m1"]).deps,
             devDeps |-> parseDepsFromDocument(text["m1"]).devDeps]
  /\ UNCHANGED <<phase, enabled, activeEditor, text, timeout, timers, passes,
                 sizeCache, decorationTypeCache, labels, errLog, events, last,
                 burst, firstResult>>

ParseNext == ParseStep

ParseSpec == ParseInit /\ [][ParseNext]_vars

-----------------------------------------------------------------------------
(* formatBytes on its own: applied to the byte counts around its two        *)
(* thresholds.                                                              *)

MaxBytes == 2100

\* The state of the extension while a function is looked at on its own.
Quiescent ==
  /\ enabled = TRUE
  /\ activeEditor = "m1"
  /\ timeout = 0
  /\ timers = {}
  /\ passes = EmptyBag
  /\ sizeCache = {}
  /\ decorationTypeCache = {}
  /\ labels = [e \in Editors |-> {}]
  /\ errLog = FALSE
  /\ events = 0
  /\ last = NoObs
  /\ burst = NoBurst
  /\ firstResult = {}

FormatInputs ==
  (0..MaxBytes) \cup {KiB * KiB - 1 + i : i \in 0..MaxBytes} \cup {1572864}

FormatInit ==
  /\ phase = "format"
  /\ text = InitialTexts
  /\ Quiescent
  /\ \E n \in FormatInputs : out = [done |-> FALSE, bytes |-> n, text |-> ""]

FormatStep ==
  /\ phase = "format"
  /\ ~out.done
  /\ out' = [out EXCEPT !.done = TRUE, !.text = formatBytes(out.bytes)]
  /\ UNCHANGED <<phase, enabled, activeEditor, text, timeout, timers, passes,
                 sizeCache, decorationTypeCache, labels, errLog, events, last,
                 burst, firstResult>>

FormatNext == FormatStep

FormatSpec == FormatInit /\ [][FormatNext]_vars

-----------------------------------------------------------------------------
(* getNodeModulesPackageSize on its own: applied to the install paths of up *)
(* to MaxEntries entries, with the file system failing at any one operation *)
(* or at none.                                                              *)

MaxEntries == 2

FileSizes == {24, 1000, 1024}

SeqsUpTo(S, n) == UNION {[1..k -> S] : k \in 0..n}

SubDirs == {Dir(es) : es \in SeqsUpTo({File(n) : n \in FileSizes}, 2)}

InstallPaths ==
  {Missing} \cup {File(n) : n \in FileSizes}
    \cup {Dir(es) : es \in SeqsUpTo({File(n) : n \in FileSizes} \cup SubDirs, MaxEntries)}

\* The entry whose size is looked up: a file dependency of the manifest m1.
FileEntry == [name |-> NameB, version |-> VFile, range |-> <<2, 20>>]

FsInit ==
  /\ phase = "fs"
  /\ text = InitialTexts
  /\ Quiescent
  /\ \E node \in InstallPaths : \E failAt \in 0..Operations(node) :
       out = [done |-> FALSE, node |-> node, failAt |-> failAt, text |-> "",
              request |-> NoRequest]

FsStep ==
  /\ phase = "fs"
  /\ ~out.done
  /\ out' = [out EXCEPT !.done = TRUE,
                        !.request = RequestOf(activeEditor, FileEntry),
                        !.text = getNodeModulesPackageSizeWalk(out.node, out.failAt)]
  /\ UNCHANGED <<phase, enabled, activeEditor, text, timeout, timers, passes,
                 sizeCache, decorationTypeCache, labels, errLog, events, last,
                 burst, firstResult>>

FsNext == FsStep

FsSpec == FsInit /\ [][FsNext]_vars

-----------------------------------------------------------------------------
(* fetchSize on its own: applied to every package of the registry with      *)
(* every kind of version spec, the registry answering or failing.           *)

RegistryNames == {NameA, NameOdd, NameUntagged, NameStale, NameB}

VersionSpecs == {<<>>, Wildcard, VRange, VOddKey, V100, V200}

RegistryInit ==
  /\ phase = "registry"
  /\ text = InitialTexts
  /\ Quiescent
  /\ \E n \in RegistryNames, v \in VersionSpecs, o \in RegistryOutcomes :
       out = [done |-> FALSE, entry |-> [name |-> n, version |-> v, range |-> <<2, 20>>],
              outcome |-> o, text |-> "", request |-> NoRequest]

RegistryStep ==
  /\ phase = "registry"
  /\ ~out.done
  /\ out' = [out EXCEPT !.done = TRUE,
                        !.request = RequestOf(activeEditor, out.entry),
                        !.text = fetchSizeResult(PackageSpec(out.entry), out.outcome)]
  /\ UNCHANGED <<phase, enabled, activeEditor, text, timeout, timers, passes,
                 sizeCache, decorationTypeCache, labels, errLog, events, last,
                 burst, firstResult>>

RegistryNext == RegistryStep

RegistrySpec == RegistryInit /\ [][RegistryNext]_vars

-----------------------------------------------------------------------------
(* Properties *)

\* The step that led to the current state called updateDecorations and the
\* call got past its checks to the parse and the resolvers.
PassStarted == last.parsed

KeyAt(i) == LookupKey(last.ed, last.all[i])

ThisTimer(e) == [id |-> timeout, editor |-> e, delay |-> DebounceMs]

\* C1: after every pass that runs to its end on a manifest view, the labels
\* painted in that view are exactly the label groups of that pass (none for a
\* pass whose parse yields no entry): no label of an earlier pass remains.
C1_NoStaleLabels == last.completed => labels[last.ed] = last.groups

\* C2: a run of edits of the active manifest, each made while the timer of
\* the one before is pending, calls updateDecorations exactly once, when the
\* timer of the last edit fires, and not before; a focus change to a manifest
\* and the opening of the active manifest call it in the same step.
C2_DebounceOnePass ==
  /\ (burst.n > 0 /\ ~burst.closed) =>
       /\ burst.calls = 0
       /\ timers = {ThisTimer(activeEditor)}
  /\ burst.closed => burst.calls = 1 /\ timers = {}
  /\ (last.act = "Focus" /\ isPackageJson(last.doc)) =>
       last.started /\ last.ed = activeEditor /\ timers = {}
  /\ (last.act = "Open" /\ isPackageJson(last.doc) /\ last.doc = activeEditor) =>
       last.started /\ last.ed = activeEditor /\ timers = {}

\* C2 witness: the timer has fired after a run of two edits or more, and
\* its callback called updateDecorations.
C2_Witness ==
  last.act = "TimerFire" /\ burst.closed /\ burst.n >= 2 /\ last.started

\* C3 as claimed: after every trigger event (an edit of the active document,
\* a change of the active view to any document, the opening of a manifest) no
\* timer scheduled before the event is pending.
C3_EveryTriggerCancels ==
  /\ last.act = "Edit" => timers \subseteq {ThisTimer(last.doc)}
  /\ (last.act = "Focus" /\ last.doc # NoEditor) => timers = {}
  /\ (last.act = "Open" /\ isPackageJson(last.doc)) => timers = {}

\* C3 as amended: the events that call triggerUpdate (an edit of the active
\* document, a change of the active view to a manifest, the opening of the
\* manifest of the active view) leave no earlier timer pending, whatever
\* document it was scheduled for; a change of the active view to another
\* document or to none, and the opening of any other document, leave the
\* timers as they are.
C3_TriggerUpdateCancels ==
  [][/\ last'.act = "Edit" => timers' \subseteq {[id |-> timeout', editor |-> last'.doc, delay |-> DebounceMs]}
     /\ (last'.act = "Focus" /\ isPackageJson(last'.doc)) => timers' = {}
     /\ (last'.act = "Open" /\ isPackageJson(last'.doc) /\ last'.doc = activeEditor')
          => timers' = {}
     /\ (last'.act = "Focus" /\ ~isPackageJson(last'.doc)) => timers' = timers
     /\ (last'.act = "Open" /\ ~(isPackageJson(last'.doc) /\ last'.doc = activeEditor'))
          => timers' = timers]_vars

\* C3 witness: a change of the active view to a manifest has cancelled the
\* timer scheduled for another document.
C3_Witness ==
  /\ last.act = "Focus"
  /\ \E t \in last.cancelled : t.editor # last.doc
  /\ timers = {}

\* C4: at most one debounce timer is pending.
C4_AtMostOneTimer == Cardinality(timers) <= 1

\* C4 witness: a timer is pending after a second edit replaced the first one's.
C4_Witness == Cardinality(timers) = 1 /\ burst.n >= 2 /\ last.cancelled # {}

\* C5: while the setting stays off, no step changes the labels of a manifest
\* view and no step parses or starts a lookup.
C5_DisabledFreezes ==
  [][(phase' = "active" /\ ~enabled /\ ~enabled') =>
       /\ \A m \in Manifests : labels'[m] = labels[m]
       /\ ~last'.parsed]_vars

\* C6: a pass that contains a dependency whose earlier lookup failed issues a
\* new lookup for it: no resolver answers a pass with the unknown sentinel
\* straight from the cache.
C6_FailureRetried ==
  PassStarted => \A i \in DOMAIN last.sizes : last.sizes[i] # Unknown

\* C7 as claimed: within one pass, entries that map to the same lookup key
\* issue one lookup between them.
C7_OneCallPerKey ==
  PassStarted =>
    \A i, j \in DOMAIN last.sizes :
      (i # j /\ KeyAt(i) = KeyAt(j)) =>
        ~(last.sizes[i] = Pending /\ last.sizes[j] = Pending)

\* C7 as amended: within one pass a lookup is issued for every entry whose key
\* is not in the cache when the pass starts (and whose name can be URI-encoded),
\* also for entries that share a key; an entry whose key is cached issues none.
C7_OneCallPerUncachedEntry ==
  PassStarted =>
    /\ \A i \in DOMAIN last.sizes :
         (last.sizes[i] = Pending) <=>
           /\ ~(\E r \in sizeCache : r.key = KeyAt(i))
           /\ ~(/\ ~isFileDependency(last.all[i].version)
                /\ \E c \in 1..Len(last.all[i].name) : last.all[i].name[c] = LoneSurrogate)
    /\ Pending \in Range(last.sizes) =>
         [editor |-> last.ed, all |-> last.all, sizes |-> last.sizes,
          newest |-> TRUE] \in BagToSet(passes)

\* C7 witness: a pass has issued two lookups for one key.
C7_Witness ==
  /\ PassStarted
  /\ Len(last.sizes) = 2
  /\ KeyAt(1) = KeyAt(2)
  /\ last.sizes = <<Pending, Pending>>

C9_NeverRaises == ~last.aborted /\ ~errLog

\* The names of a sequence of entries, counted.
Count(entries, n) == Cardinality({i \in 1..Len(entries) : entries[i].name = n})

ParsedDoc == text["m1"]

\* C10 as claimed: for a text that is valid JSON, every name of the
\* dependencies map has exactly one entry in deps and every name of the
\* devDependencies map exactly one in devDeps.
C10_OneEntryPerName ==
  (out.done /\ ParsedDoc.valid) =>
    /\ \A n \in DeclaredNames(ParsedDoc, "dependencies") : Count(out.deps, n) = 1
    /\ \A n \in DeclaredNames(ParsedDoc, "devDependencies") : Count(out.devDeps, n) = 1

\* The name n is declared in sect only, and its declaration is the one pair of
\* the text with this key and a string value.
DeclaredOnce(doc, n, sect, other) ==
  LET hits == {i \in 1..Len(doc.pairs) :
                 doc.pairs[i].key = n /\ doc.pairs[i].val # NonString}
  IN  /\ Cardinality(hits) = 1
      /\ \A i \in hits : doc.pairs[i].sect = sect
      /\ n \notin DeclaredNames(doc, other)

EntryOf(doc, n) ==
  LET i == CHOOSE j \in 1..Len(doc.pairs) :
             doc.pairs[j].key = n /\ doc.pairs[j].val # NonString
  IN  [name |-> n,
       version |-> IF doc.pairs[i].val = <<>> THEN Wildcard ELSE doc.pairs[i].val,
       range |-> <<doc.pairs[i].line, doc.lineLen[doc.pairs[i].line]>>]

\* C10 as amended: for a text that is valid JSON, a name declared in one of
\* the two maps only, whose declaration is the one "key": "string" pair of
\* the text with that key, has exactly one entry, anchored at the end of the
\* line of its declaration; the entry is in the sequence of its map and none
\* in the other, except that a name every object inherits (constructor) is
\* put in deps also when it is declared under devDependencies.
C10_OneEntryPerUniqueStringPair ==
  (out.done /\ ParsedDoc.valid) =>
    /\ \A n \in DeclaredNames(ParsedDoc, "dependencies") :
         DeclaredOnce(ParsedDoc, n, "dependencies", "devDependencies") =>
           /\ Count(out.deps, n) = 1 /\ Count(out.devDeps, n) = 0
           /\ EntryOf(ParsedDoc, n) \in Range(out.deps)
    /\ \A n \in DeclaredNames(ParsedDoc, "devDependencies") :
         DeclaredOnce(ParsedDoc, n, "devDependencies", "dependencies") =>
           IF n \in ObjectPrototypeNames
           THEN /\ Count(out.deps, n) = 1 /\ Count(out.devDeps, n) = 0
                /\ EntryOf(ParsedDoc, n) \in Range(out.deps)
           ELSE /\ Count(out.devDeps, n) = 1 /\ Count(out.deps, n) = 0
                /\ EntryOf(ParsedDoc, n) \in Range(out.devDeps)

\* C10 witness: a valid text was parsed in which one name is declared once
\* under dependencies, another once under devDependencies, beside a third pair.
C10_Witness ==
  /\ out.done /\ ParsedDoc.valid
  /\ Len(ParsedDoc.pairs) = 3
  /\ DeclaredOnce(ParsedDoc, NameCtor, "dependencies", "devDependencies")
  /\ DeclaredOnce(ParsedDoc, NameA, "devDependencies", "dependencies")
  /\ Len(out.deps) = 1 /\ Len(out.devDeps) = 1

\* txt is the tenth nearest to n / d (the larger one on a tie), written with
\* one decimal and followed by the unit.
OneDecimal(n, d, unit, txt) ==
  \E t \in ((10 * n) \div d)..((10 * n) \div d + 1) :
    /\ 2 * (10 * n - t * d) < d
    /\ 2 * (t * d - 10 * n) <= d
    /\ txt = ToString(t \div 10) \o "." \o ToString(t % 10) \o unit

\* The three ranges of formatBytes: MB from 1,048,576, kB from 1,024, the
\* integer itself below.
FormatRanges ==
  out.done =>
    IF out.bytes >= 1048576 THEN OneDecimal(out.bytes, 1048576, " MB", out.text)
    ELSE IF out.bytes >= 1024 THEN OneDecimal(out.bytes, 1024, " kB", out.text)
    ELSE out.text = ToString(out.bytes) \o " B"

FormatOf(n, txt) == (out.done /\ out.bytes = n) => out.text = txt

\* C12 as claimed: formatBytes writes a count of 1,048,576 or more in MB and
\* one of 1,024 or more in kB, both with one decimal, and a smaller one as
\* the integer in B; 500 gives "500 B", 2048 "2.0 kB", 1,572,864 "1.5 MB"
\* and 1,048,575 "1023.9 kB".
C12_FormatAsClaimed ==
  /\ FormatRanges
  /\ FormatOf(500, "500 B") /\ FormatOf(2048, "2.0 kB")
  /\ FormatOf(1572864, "1.5 MB") /\ FormatOf(1048575, "1023.9 kB")

\* C12 as amended: the same three ranges, the decimal being the tenth nearest
\* to the quotient; 500 gives "500 B", 2048 "2.0 kB", 1,572,864 "1.5 MB" and
\* 1,048,575, whose quotient 1023.999 is nearest to 1024.0, gives "1024.0 kB".
C12_FormatRounded ==
  /\ FormatRanges
  /\ FormatOf(500, "500 B") /\ FormatOf(2048, "2.0 kB")
  /\ FormatOf(1572864, "1.5 MB") /\ FormatOf(1048575, "1024.0 kB")

\* C12 witness: the count just below the MB threshold has been formatted.
C12_Witness == out.done /\ out.bytes = 1048575 /\ out.text = "1024.0 kB"

\* The label groups of the view of the last pass that contain the position r.
GroupsAt(r) == {g \in labels[last.ed] : r \in Range(g.ranges)}

\* C11 as claimed: after a pass has rendered, the anchor of every entry is in
\* exactly one label group of the view.
C11_AnchorInOneGroup ==
  last.completed =>
    \A i \in DOMAIN last.shown : Cardinality(GroupsAt(last.shown[i].range)) = 1

\* C11 as amended: after a pass that resolved at least one entry has rendered
\* (a pass without entries returns before it paints or clears anything),
\* there is one group per display string; the anchor of every entry is in the group of the entry's string,
\* every position of a group is the anchor of an entry with the group's
\* string, and an anchor is in as many groups as there are different strings
\* among the entries declared on its line.
C11_AnchorInGroupOfItsString ==
  (last.completed /\ last.shown # <<>>) =>
    /\ \A g, h \in labels[last.ed] : g.text = h.text => g = h
    /\ \A i \in DOMAIN last.shown :
         /\ \E g \in GroupsAt(last.shown[i].range) : g.text = last.shown[i].text
         /\ Cardinality(GroupsAt(last.shown[i].range))
              = Cardinality({last.shown[j].text :
                               j \in {k \in DOMAIN last.shown :
                                        last.shown[k].range = last.shown[i].range}})
    /\ \A g \in labels[last.ed] : \A r \in Range(g.ranges) :
         \E i \in DOMAIN last.shown : last.shown[i] = [range |-> r, text |-> g.text]

\* C11 witness: a pass has rendered two entries declared on one line with
\* different strings, and their anchor is in two groups.
C11_Witness ==
  /\ last.completed
  /\ Len(last.shown) = 2
  /\ last.shown[1].range = last.shown[2].range
  /\ last.shown[1].text # last.shown[2].text
  /\ Cardinality(GroupsAt(last.shown[1].range)) = 2

\* Fan-out: the step that starts a pass has called the resolver of every
\* entry; the lookups it issued are outstanding together, in one pass that
\* has not rendered.
FanOut ==
  PassStarted =>
    /\ Len(last.sizes) = Len(last.all)
    /\ Pending \in Range(last.sizes) =>
         /\ ~last.completed /\ last.shown = <<>>
         /\ [editor |-> last.ed, all |-> last.all, sizes |-> last.sizes,
             newest |-> TRUE]
              \in BagToSet(passes)

\* Fan-in: a step changes the labels of a view only by rendering a pass, all
\* of whose entries have their display string (no lookup of it is
\* outstanding, none was rejected), or by deactivating.
FanIn ==
  labels' # labels =>
    \/ last'.act = "Deactivate"
    \/ /\ last'.completed /\ last'.shown # <<>>
       /\ \A i \in DOMAIN last'.shown : last'.shown[i].text \notin {Pending, Rejected}
       /\ \A e \in Editors \ {last'.ed} : labels'[e] = labels[e]

\* C13: the lookups of all entries of a pass are started before any of them
\* is awaited, and the pass paints and clears only after every one of its
\* lookups has settled.
C13_FanOutFanIn == []FanOut /\ [][FanIn]_vars

\* C13 witness: a pass of two entries, whose lookups were outstanding
\* together, has rendered when the second of them settled.
C13_Witness ==
  /\ last.act = "Settle" /\ last.completed
  /\ Len(last.shown) = 2
  /\ \A i \in 1..2 : last.shown[i].text \notin {Pending, Rejected}
  /\ CacheHas(firstResult, LookupKey(last.ed, last.all[1]))

\* C14: a text that is not valid JSON parses to two empty sequences, whatever
\* "key": "value" pairs it contains.
C14_InvalidJsonNoEntries ==
  (out.done /\ ~ParsedDoc.valid) => out.deps = <<>> /\ out.devDeps = <<>>

\* C14 witness: a text that is not valid JSON, in which the scan would find a
\* pair under dependencies and one under devDependencies, has been parsed.
C14_Witness ==
  /\ out.done /\ ~ParsedDoc.valid
  /\ \E i, j \in DOMAIN ParsedDoc.pairs :
       /\ ParsedDoc.pairs[i].sect = "dependencies" /\ ParsedDoc.pairs[i].val = V100
       /\ ParsedDoc.pairs[j].sect = "devDependencies" /\ ParsedDoc.pairs[j].val = V100
  /\ out.deps = <<>> /\ out.devDeps = <<>>

\* C15: a trigger (edit, focus change, opening) that concerns a view whose
\* document is not a manifest leaves no label in that view and neither calls
\* updateDecorations nor parses nor issues a lookup; no timer and no pass
\* ever belongs to such a view.
C15_NonManifestCleared ==
  /\ (/\ last.act \in {"Edit", "Focus", "Open"}
      /\ last.doc \in Editors /\ ~isPackageJson(last.doc)) =>
       /\ labels[last.doc] = {}
       /\ ~last.started /\ ~last.parsed
       /\ last.all = <<>> /\ last.sizes = <<>>
  /\ \A t \in timers : isPackageJson(t.editor)
  /\ \A p \in BagToSet(passes) : isPackageJson(p.editor)
  /\ last.started => isPackageJson(last.ed)

\* C15 witness: the active view has changed from a manifest with labels to a
\* document that is not a manifest, while decoration types exist.
C15_Witness ==
  /\ last.act = "Focus" /\ last.doc = "o" /\ activeEditor = "o"
  /\ decorationTypeCache # {}
  /\ \E e \in Manifests : labels[e] # {}
  /\ labels["o"] = {}

\* The pairs of a text that stand in one of the two dependency maps.
DepPairs(doc) ==
  {i \in DOMAIN doc.pairs : doc.pairs[i].sect \in {"dependencies", "devDependencies"}}

\* The entry d is the only dependency the text declares, on line ln, and its
\* name is the key of no other pair.
SoleDependency(doc, d, ln) ==
  /\ doc.valid
  /\ \E i \in DOMAIN doc.pairs :
       /\ DepPairs(doc) = {i}
       /\ doc.pairs[i].key = d.name /\ doc.pairs[i].val = d.version
       /\ doc.pairs[i].line = ln
       /\ \A j \in DOMAIN doc.pairs \ {i} : doc.pairs[j].key # d.name

\* C16: for an entry with the exact version 1.0.0 that is not cached, the
\* pass requests the version document of that name and version; when the
\* manifest declares this dependency only and the registry answers with
\* unpackedSize n, the view gets exactly one label, formatBytes(n), at the
\* end of the line of the declaration ("1.4 MB" for n = 1434895).
C16_ExactEndToEnd ==
  /\ PassStarted =>
       \A i \in DOMAIN last.all :
         (last.all[i].version = V100 /\ last.sizes[i] = Pending) =>
           last.requests[i] = [to |-> "registry-version", name |-> last.all[i].name,
                               version |-> V100, dir |-> ""]
  /\ \A ln \in 1..6 :
       (/\ last.act = "Settle" /\ last.outcome = "ok"
        /\ Len(last.shown) = 1
        /\ last.all[1].version = V100
        /\ SoleDependency(text[last.ed], last.all[1], ln)) =>
         \A rv \in RegistryVersions(last.all[1].name) :
           rv.version = V100 =>
             /\ labels[last.ed]
                  = {[text |-> formatBytes(rv.unpackedSize),
                      ranges |-> <<<<ln, text[last.ed].lineLen[ln]>>>>]}
             /\ rv.unpackedSize = 1434895 =>
                  labels[last.ed] = {[text |-> "1.4 MB", ranges |-> <<<<ln, 20>>>>]}

\* C16 witness: the lookup of the only dependency of a manifest, declared on
\* line 2 with an exact version, was answered and the label painted.
C16_Witness ==
  /\ last.act = "Settle" /\ last.outcome = "ok"
  /\ text[last.ed] = TxtA
  /\ SoleDependency(text[last.ed], last.all[1], 2)
  /\ labels[last.ed] = {[text |-> "1.4 MB", ranges |-> <<<<2, 20>>>>]}

\* The sizes of all files a directory contains, at any depth, added up.
RECURSIVE FilesBelow(_)
FilesBelow(node) ==
  IF node.kind = "file" THEN node.size
  ELSE LET RECURSIVE Sum(_)
           Sum(es) == IF es = <<>> THEN 0 ELSE FilesBelow(Head(es)) + Sum(Tail(es))
       IN  Sum(node.entries)

\* C17: the size of a file dependency is looked up in the file system and
\* not in the registry; it is formatBytes of the file's size for a file,
\* formatBytes of the sum of all files below it for a directory ("2.0 kB"
\* for 2048 bytes), and the unknown string when the path is missing or any
\* operation of the walk fails, whatever total the walk had reached.
C17_LocalSize ==
  out.done =>
    /\ out.request.to = "fs"
    /\ IF out.node.kind = "missing" \/ out.failAt # 0 THEN out.text = Unknown
       ELSE IF out.node.kind = "file" THEN out.text = formatBytes(out.node.size)
       ELSE /\ out.text = formatBytes(FilesBelow(out.node))
            /\ FilesBelow(out.node) = 2048 => out.text = "2.0 kB"

\* C17 witness: the walk of a directory of 2048 bytes in two levels has
\* failed at its last operation, after 2024 bytes were added up.
C17_Witness ==
  /\ out.done
  /\ out.node = Dir(<<File(1024), Dir(<<File(1000), File(24)>>)>>)
  /\ out.failAt = 6
  /\ getDirSizeAt(out.node, 2, out.failAt).total = 2024
  /\ out.text = Unknown

\* C18: once no pass is in flight, every manifest view on which the pass
\* started last has rendered shows the labels of that pass, whatever older
\* passes painted meanwhile and in whatever order the lookups settled.
C18_NewestPassShown ==
  (phase = "active" /\ passes = EmptyBag) =>
    \A e \in Manifests : last.newest[e].done => labels[e] = last.newest[e].groups

\* C19: between two clears, an entry of the result cache stays as it is.
C19_CacheStable ==
  [][last'.act # "Deactivate" => \A r \in sizeCache : r \in sizeCache']_vars

\* The unpackedSize the registry publishes for version v of package n.
Published(n, v) == {rv.unpackedSize : rv \in {x \in RegistryVersions(n) : x.version = v}}

\* C20: for a version spec that is no exact version (none, the wildcard, a
\* range), the package document is requested; when the registry answers,
\* the result is the size of the version the spec string names if the
\* versions map has that key, else the size of the version the dist-tag
\* latest names, and the unknown string when latest is absent or names no
\* version of the map.
C20_LatestOrNamedVersion ==
  (out.done /\ out.entry.version \in {<<>>, Wildcard, VRange, VOddKey}) =>
    LET n == out.entry.name
        v == out.entry.version
        named == IF v \in {<<>>, Wildcard} THEN {} ELSE Published(n, v)
        latest == IF RegistryLatest(n) = <<>> THEN {} ELSE Published(n, RegistryLatest(n))
    IN  /\ out.request = [to |-> "registry-package", name |-> n, version |-> <<>>, dir |-> ""]
        /\ out.outcome = "ok" =>
             IF named # {} THEN out.text \in {formatBytes(b) : b \in named}
             ELSE IF latest # {} THEN out.text \in {formatBytes(b) : b \in latest}
             ELSE out.text = Unknown

\* C20 witness: a spec string that is no exact version and is a key of the
\* versions map got the size of that version, not the one of latest.
C20_Witness ==
  /\ out.done /\ out.outcome = "ok"
  /\ out.entry.name = NameOdd /\ out.entry.version = VOddKey
  /\ RegistryLatest(NameOdd) = V200
  /\ out.text = "1.5 MB"

\* The matches of the scan in doc whose key is name.
Occurrences(doc, name) ==
  {j \in 1..Len(doc.pairs) : doc.pairs[j].key = name /\ doc.pairs[j].val # NonString}

\* The entries of the sequence es whose name is name.
EntriesOf(es, name) == {i \in 1..Len(es) : es[i].name = name}

\* C21: for a name declared under dependencies and under devDependencies of
\* a text that is JSON, deps holds one entry per match of the scan with that
\* key, wherever in the text the match is, and devDeps holds none.
C21_BothCategoriesGoToDeps ==
  (out.done /\ text["m1"].valid) =>
    \A name \in DeclaredNames(text["m1"], "dependencies")
                  \cap DeclaredNames(text["m1"], "devDependencies") :
      /\ Cardinality(EntriesOf(out.deps, name))
           = Cardinality(Occurrences(text["m1"], name))
      /\ EntriesOf(out.devDeps, name) = {}

\* C21 witness: a is declared with a string value under both categories and
\* deps holds the two entries.
C21_Witness ==
  /\ out.done /\ text["m1"].valid
  /\ \E i, j \in 1..Len(text["m1"].pairs) :
       /\ text["m1"].pairs[i] = Pair(NameA, V100, "dependencies", 2)
       /\ text["m1"].pairs[j].key = NameA
       /\ text["m1"].pairs[j].sect = "devDependencies"
       /\ text["m1"].pairs[j].val = <<>>
  /\ Cardinality(EntriesOf(out.deps, NameA)) = 2
  /\ out.devDeps = <<>>

\* C22: once deactivate has run, the result cache and the registry of
\* decoration types are empty and no pass paints.
C22_QuietAfterDeactivate ==
  phase = "deactivated" =>
    /\ sizeCache = {}
    /\ decorationTypeCache = {}
    /\ ~last.completed

\* The entries a pass started now on the text doc would resolve.
AllOf(doc) == parseDepsFromDocument(doc).deps \o parseDepsFromDocument(doc).devDeps

\* The last step was an edit of the manifest e in the active editor.
EditOf(e) == phase = "active" /\ last.act = "Edit" /\ last.doc = e /\ activeEditor = e

\* The last step started a pass on the view e (past the tests of the flag
\* and of the file name) on the text e holds now.
PassOn(e) == last.started /\ last.parsed /\ last.ed = e /\ last.all = AllOf(text[e])

=============================================================================
